---- MODULE Spec2Model ----
(***************************************************************************)
(* Model of thoth-build-watcher (app.py): the main process (cli) that      *)
(* starts the producers and the submission workers and then polls the      *)
(* workers' liveness, the existing-image producer, the event producer and  *)
(* the submission workers, all sharing one manager queue.                  *)
(*                                                                         *)
(* Python strings are sequences of one-character strings; Python's None is *)
(* the distinguished value None below.                                     *)
(***************************************************************************)
EXTENDS Integers, Sequences, FiniteSets, TLC

\* ------------------------------------------------------------------ bounds
MaxWorkers == 2
\* Inputs the producers handle: image stream tags listed and watch events.
MaxInputs == 2
\* Longest registry password of the single-worker specification.
MaxPwLen == 2

\* ------------------------------------------------------- Python str values
None == <<"<None>">>
NoneStr == <<"N", "o", "n", "e">>

\* bool(s) of an Optional[str]: None and "" are falsy.
Truthy(s) == s # None /\ s # <<>>

\* str(s) as done by an f-string replacement field.
Format(s) == IF s = None THEN NoneStr ELSE s

\* Index of the last "/" of s, 0 when there is none.
RECURSIVE LastSlashFrom(_, _)
LastSlashFrom(s, i) ==
    IF i = 0 THEN 0
    ELSE IF s[i] = "/" THEN i
    ELSE LastSlashFrom(s, i - 1)

\* Index of the first "/" of s, 0 when there is none.
RECURSIVE FirstSlashFrom(_, _)
FirstSlashFrom(s, i) ==
    IF i > Len(s) THEN 0
    ELSE IF s[i] = "/" THEN i
    ELSE FirstSlashFrom(s, i + 1)

\* image.split("/", maxsplit=1): cuts at the FIRST "/".
SplitFirst(s) ==
    LET k == FirstSlashFrom(s, 1)
    IN  IF k = 0 THEN <<s>>
        ELSE <<SubSeq(s, 1, k - 1), SubSeq(s, k + 1, Len(s))>>

\* image.rsplit("/", maxsplit=1): a list of one element when s has no "/",
\* otherwise the text before and the text after the last "/".
RSplit(s) ==
    LET k == LastSlashFrom(s, Len(s))
    IN  IF k = 0 THEN <<s>>
        ELSE <<SubSeq(s, 1, k - 1), SubSeq(s, k + 1, Len(s))>>

\* Start of the leftmost occurrence of the non-empty old in s at or after
\* position i, 0 when there is none.
NextMatch(s, old, i) ==
    LET starts == {j \in i..(Len(s) - Len(old) + 1) :
                      SubSeq(s, j, j + Len(old) - 1) = old}
    IN  IF starts = {} THEN 0
        ELSE CHOOSE j \in starts : \A k \in starts : j <= k

\* s.replace(old, new) of a non-empty old from position i on: the
\* occurrences of old are replaced from left to right and do not overlap.
RECURSIVE ReplaceFrom(_, _, _, _)
ReplaceFrom(s, old, new, i) ==
    LET j == NextMatch(s, old, i)
    IN  IF j = 0 THEN SubSeq(s, i, Len(s))
        ELSE SubSeq(s, i, j - 1) \o new
                 \o ReplaceFrom(s, old, new, j + Len(old))

\* s.replace("", new): new is put before every character and at the end.
Interleave(s, new) ==
    LET m == Len(new)
    IN  [k \in 1..(Len(s) * (m + 1) + m) |->
            IF (k - 1) % (m + 1) < m THEN new[((k - 1) % (m + 1)) + 1]
            ELSE s[((k - 1) \div (m + 1)) + 1]]

\* s.replace(old, new)
Replace(s, old, new) ==
    IF old = <<>> THEN Interleave(s, new) ELSE ReplaceFrom(s, old, new, 1)

\* ------------------------------------------------- literals of _push_image
\* _SKOPEO_EXEC_PATH, here the executable found on the PATH.
SkopeoExecPath ==
    <<"s", "k", "o", "p", "e", "o">>

\* Line 136: " copy "
CopyWord ==
    <<" ", "c", "o", "p", "y", " ">>

\* Line 139
SrcTlsFlag ==
    <<"-", "-", "s", "r", "c", "-", "t", "l", "s", "-", "v", "e", "r", "i",
      "f", "y", "=", "f", "a", "l", "s", "e", " ">>

\* Line 142
DestTlsFlag ==
    <<"-", "-", "d", "e", "s", "t", "-", "t", "l", "s", "-", "v", "e", "r",
      "i", "f", "y", "=", "f", "a", "l", "s", "e", " ">>

\* Line 145
DestCredsFlag ==
    <<"-", "-", "d", "e", "s", "t", "-", "c", "r", "e", "d", "s", "=">>

\* Line 161
DockerScheme ==
    <<"d", "o", "c", "k", "e", "r", ":", "/", "/">>

\* Line 163: the text put in the place of the password.
Mask ==
    <<"*", "*", "*">>

\* ------------------------------------------------------------ environment
Token == <<"t", "k">>
Passwords == {None, <<"p", "w">>}
\* --registry-user and --no-registry-tls-verify only shape the skopeo
\* command line: the pipeline runs with one value of each, and WorkerSpec
\* below ranges over the others.
Users == {<<"u">>}
TlsFlags == {FALSE}
Registries == {None, <<"q", ".", "i", "o">>}

Phases == {"Complete", "Failed", "Running"}

\* Builds of the watched namespace with status.outputDockerImageReference.
\* A build without an output image has no such reference: None.
Builds == {"b1", "b2"}
BuildRef ==
    [b \in Builds |->
        IF b = "b1" THEN <<"r", "/", "n", "/", "a", ":", "1">> ELSE None]

\* The answer of the image stream listing: every stream has
\* status.dockerImageRepository (empty while the registry gives the stream
\* no repository) and status.tags; a stream without tags has tags None or
\* [], which "item.status.tags or []" treats alike: <<>> here.
Listings ==
    { << [repo |-> <<>>, tags |-> << <<"1">> >>],
         [repo |-> <<"r", "/", "c">>, tags |-> <<>>],
         [repo |-> <<"r", "/", "n", "/", "a">>, tags |-> << <<"1">> >>] >> }

Workers == 1..MaxWorkers

VARIABLES
    opt,                \* the command line options of cli
    registry_password,  \* cli's local registry_password (line 333 rebinds it)
    mainPc,             \* position of the main process in cli
    exitStatus,         \* exit status of the main process, 0 while running
    process_pool,       \* cli's process_pool: the workers started so far
    existing,           \* state of the existing-image producer process
    imagestreams,       \* the image streams its listing returned
    exTodo,             \* (repository, tag) pairs it still has to enqueue
    producer,           \* state of the event producer process
    completed,          \* per build, the events received in phase Complete
    ignored,            \* the number of events received in another phase
    pc,                 \* position of every worker process
    cur,                \* the queue item a worker is handling
    out,                \* the reference a worker is about to submit
    queue,              \* the manager queue: ids of the items waiting
    enq,                \* every queue.put so far: [ref, src, build]
    att,                \* per item, the number of _do_analyze_image calls
    calls,              \* image_analysis calls so far: [id, image]
    runs,               \* run_command calls so far: [id, log, ok]
    logged              \* items whose error line 194 has logged

vars == <<opt, registry_password, mainPc, exitStatus, process_pool, existing,
          imagestreams, exTodo, producer, completed, ignored, pc, cur, out, queue,
          enq, att, calls, runs, logged>>

mainVars == <<registry_password, mainPc, exitStatus, process_pool>>
workerVars == <<pc, cur, out, att, calls, runs, logged>>

\* --------------------------------------------------------------- the queue
\* Number of inputs the producers have handled so far.
Inputs == Len(enq) + ignored

\* A put that drops a reference that was enqueued before.
PutOnce(ref, src, build) ==
    IF \E i \in 1..Len(enq) : enq[i].ref = ref
    THEN UNCHANGED <<enq, queue, att>>
    ELSE /\ enq' = Append(enq, [ref |-> ref, src |-> src, build |-> build])
         /\ queue' = Append(queue, Len(enq) + 1)
         /\ att' = Append(att, 0)

\* queue.put(ref): appends one item to the shared queue.
Put(ref, src, build) ==
    /\ enq' = Append(enq, [ref |-> ref, src |-> src, build |-> build])
    /\ queue' = Append(queue, Len(enq) + 1)
    /\ att' = Append(att, 0)

\* A get that leaves the head on the queue.
AfterPeek(q) == q

\* What queue.get() leaves on the queue: the head is removed.
AfterGet(q) == Tail(q)

Init ==
    /\ opt \in [pass_token : BOOLEAN,
                registry_user : Users,
                registry_password : Passwords,
                no_registry_tls_verify : TlsFlags,
                push_registry : Registries,
                analyze_existing : BOOLEAN,
                workers_count : 0..MaxWorkers]
    /\ registry_password = opt.registry_password
    /\ mainPc = "start"
    /\ exitStatus = 0
    /\ process_pool = <<>>
    /\ existing = "notstarted"
    /\ imagestreams = <<>>
    /\ exTodo = <<>>
    /\ producer = "notstarted"
    /\ completed = [b \in Builds |-> 0]
    /\ ignored = 0
    /\ pc = [w \in Workers |-> "notstarted"]
    /\ cur = [w \in Workers |-> 0]
    /\ out = [w \in Workers |-> None]
    /\ queue = <<>>
    /\ enq = <<>>
    /\ att = <<>>
    /\ calls = {}
    /\ runs = {}
    /\ logged = {}

\* ------------------------------------------------------- main process: cli
\* Lines 317-322: the existing-image producer is started when asked for.
StartExisting ==
    /\ mainPc = "start"
    /\ existing' = IF opt.analyze_existing THEN "listing" ELSE existing
    /\ mainPc' = "validate"
    /\ UNCHANGED <<opt, registry_password, exitStatus, process_pool, exTodo,
                   imagestreams,
                   producer, completed, ignored, queue, enq>>
    /\ UNCHANGED workerVars

\* Lines 328-333: --pass-token excludes an explicit password.
Validate ==
    /\ mainPc = "validate"
    /\ IF opt.pass_token /\ Truthy(registry_password)
       THEN /\ mainPc' = "failed"
            /\ exitStatus' = 1
            /\ UNCHANGED registry_password
       ELSE /\ mainPc' = "start_producer"
            /\ registry_password' =
                   IF opt.pass_token THEN Token ELSE registry_password
            /\ UNCHANGED exitStatus
    /\ UNCHANGED <<opt, process_pool, existing, exTodo, imagestreams, producer,
                   completed,
                   ignored,
                   queue, enq>>
    /\ UNCHANGED workerVars

\* Lines 335-336.
StartProducer ==
    /\ mainPc = "start_producer"
    /\ producer' = "running"
    /\ mainPc' = "start_workers"
    /\ UNCHANGED <<opt, registry_password, exitStatus, process_pool, existing,
                   exTodo, imagestreams, completed, ignored, queue, enq>>
    /\ UNCHANGED workerVars

\* A loop over range(workers_count - 1).
MoreWorkersButOne == Len(process_pool) < opt.workers_count - 1

\* Line 343: range(workers_count) has a value left.
MoreWorkers == Len(process_pool) < opt.workers_count

\* Lines 343-347: one iteration of the loop, or its end.
StartWorkers ==
    /\ mainPc = "start_workers"
    /\ IF MoreWorkers
       THEN /\ pc' = [pc EXCEPT ![Len(process_pool) + 1] = "get"]
            /\ process_pool' = Append(process_pool, Len(process_pool) + 1)
            /\ UNCHANGED mainPc
       ELSE /\ mainPc' = "check"
            /\ UNCHANGED <<pc, process_pool>>
    /\ UNCHANGED <<opt, registry_password, exitStatus, existing, exTodo,
                   imagestreams,
                   producer, completed, ignored, queue, enq, cur, out, att,
                   calls, runs, logged>>

\* process.is_alive()
IsAlive(p) == pc[p] # "dead"

\* Line 351: any(not process.is_alive() for process in process_pool)
AllOfPoolDead ==
    /\ process_pool # <<>>
    /\ \A i \in 1..Len(process_pool) : ~IsAlive(process_pool[i])

\* A poll that fails while every worker is alive.
NoneOfPoolDead ==
    \A i \in 1..Len(process_pool) : IsAlive(process_pool[i])

\* A poll that also looks at the existing-image producer.
AnyOfPoolOrScanDead ==
    \/ \E i \in 1..Len(process_pool) : ~IsAlive(process_pool[i])
    \/ existing \in {"done", "failed"}

AnyOfPoolDead ==
    \E i \in 1..Len(process_pool) : ~IsAlive(process_pool[i])

\* Lines 350-352: one liveness poll.
Check ==
    /\ mainPc = "check"
    /\ IF AnyOfPoolDead
       THEN /\ mainPc' = "failed"
            /\ exitStatus' = 1
       ELSE /\ mainPc' = "sleep"
            /\ UNCHANGED exitStatus
    /\ UNCHANGED <<opt, registry_password, process_pool, existing, exTodo,
                   imagestreams,
                   producer, completed, ignored, queue, enq>>
    /\ UNCHANGED workerVars

\* Line 354: time.sleep(5) returns.
Sleep ==
    /\ mainPc = "sleep"
    /\ mainPc' = "check"
    /\ UNCHANGED <<opt, registry_password, exitStatus, process_pool, existing,
                   exTodo, imagestreams, producer, completed, ignored, queue, enq>>
    /\ UNCHANGED workerVars

Main == StartExisting \/ Validate \/ StartProducer \/ StartWorkers
            \/ Check \/ Sleep

\* ------------------------------------------------- existing-image producer
\* A scan that stops after the first image stream.
PairsOfFirst(listing) ==
    IF listing = <<>> THEN <<>>
    ELSE [i \in 1..Len(Head(listing).tags) |->
             <<Head(listing).repo, Head(listing).tags[i]>>]

\* The (repository, tag) pairs in the order of the two loops of lines 53-55.
RECURSIVE Pairs(_)
Pairs(listing) ==
    IF listing = <<>> THEN <<>>
    ELSE LET item == Head(listing)
             tags == item.tags
         IN  [i \in 1..Len(tags) |-> <<item.repo, tags[i]>>]
                 \o Pairs(Tail(listing))

\* Line 56: f"{item.status.dockerImageRepository}:{tag_info.tag}"
ExistingReference(repo, tag) == Format(repo) \o <<":">> \o Format(tag)

\* Lines 49-53: the listing is fetched, or fetching it raises.
ExistingList ==
    /\ existing = "listing"
    /\ \/ \E l \in Listings :
            /\ imagestreams' = l
            /\ exTodo' = Pairs(l)
            /\ existing' = "running"
       \/ /\ existing' = "failed"
          /\ UNCHANGED <<imagestreams, exTodo>>
    /\ UNCHANGED <<opt, producer, completed, ignored, queue, enq, att>>
    /\ UNCHANGED mainVars
    /\ UNCHANGED <<pc, cur, out, calls, runs, logged>>

\* Lines 56-60: one tag is enqueued.
ExistingPut ==
    /\ existing = "running"
    /\ exTodo # <<>>
    /\ Inputs < MaxInputs
    /\ Put(ExistingReference(Head(exTodo)[1], Head(exTodo)[2]), "existing", "")
    /\ exTodo' = Tail(exTodo)
    /\ UNCHANGED <<opt, existing, imagestreams, producer, completed, ignored>>
    /\ UNCHANGED mainVars
    /\ UNCHANGED <<pc, cur, out, calls, runs, logged>>

\* Line 62: the scan is over and the process exits.
ExistingFinish ==
    /\ existing = "running"
    /\ exTodo = <<>>
    /\ existing' = "done"
    /\ UNCHANGED <<opt, exTodo, imagestreams, producer, completed, ignored,
                   queue, enq, att>>
    /\ UNCHANGED mainVars
    /\ UNCHANGED <<pc, cur, out, calls, runs, logged>>

Existing == ExistingList \/ ExistingPut \/ ExistingFinish

\* ---------------------------------------------------------- event producer
\* A filter that drops failed builds only.
AcceptedUnlessFailed(phase) == phase # "Failed"

\* Line 71: only this phase is accepted.
Accepted(phase) == phase = "Complete"

\* Lines 70-82: one watch event is received and handled.
Event ==
    /\ producer = "running"
    /\ Inputs < MaxInputs
    /\ \E b \in Builds, ph \in Phases :
          /\ IF ph = "Complete"
             THEN /\ completed' = [completed EXCEPT ![b] = @ + 1]
                  /\ UNCHANGED ignored
             ELSE /\ ignored' = ignored + 1
                  /\ UNCHANGED completed
          /\ IF Accepted(ph)
             THEN Put(BuildRef[b], "event", b)
             ELSE UNCHANGED <<queue, enq, att>>
    /\ UNCHANGED <<opt, existing, exTodo, imagestreams, producer>>
    /\ UNCHANGED mainVars
    /\ UNCHANGED <<pc, cur, out, calls, runs, logged>>

\* Line 70: the watch raises or ends; the process exits.
WatchBreaks ==
    /\ producer = "running"
    /\ producer' = "dead"
    /\ UNCHANGED <<opt, existing, exTodo, imagestreams, completed, ignored,
                   queue, enq, att>>
    /\ UNCHANGED mainVars
    /\ UNCHANGED <<pc, cur, out, calls, runs, logged>>

Producer == Event \/ WatchBreaks

\* ------------------------------------------------------ submission workers
\* Lines 94 and 100: the worker relocates first when a push registry is set.
AfterDequeue == IF Truthy(opt.push_registry) THEN "push" ELSE "submit"

\* A get that drops a reference that an earlier item has had attempted.
GetOnce(w) ==
    /\ pc[w] = "get"
    /\ queue # <<>>
    /\ IF \E i \in 1..Len(enq) :
             /\ i # Head(queue)
             /\ att[i] >= 1
             /\ enq[i].ref = enq[Head(queue)].ref
       THEN /\ queue' = AfterGet(queue)
            /\ UNCHANGED <<cur, out, att, pc>>
       ELSE /\ cur' = [cur EXCEPT ![w] = Head(queue)]
            /\ out' = [out EXCEPT ![w] = enq[Head(queue)].ref]
            /\ queue' = AfterGet(queue)
            /\ att' = [att EXCEPT ![Head(queue)] = @ + 1]
            /\ pc' = [pc EXCEPT ![w] = AfterDequeue]
    /\ UNCHANGED <<opt, existing, exTodo, imagestreams, producer, completed,
                   ignored, enq, calls, runs, logged>>
    /\ UNCHANGED mainVars

\* A get that waits until no other worker is inside _do_analyze_image.
GetExclusive(w) ==
    /\ pc[w] = "get"
    /\ queue # <<>>
    /\ \A v \in Workers : pc[v] \notin {"push", "submit"}
    /\ cur' = [cur EXCEPT ![w] = Head(queue)]
    /\ out' = [out EXCEPT ![w] = enq[Head(queue)].ref]
    /\ queue' = AfterGet(queue)
    /\ att' = [att EXCEPT ![Head(queue)] = @ + 1]
    /\ pc' = [pc EXCEPT ![w] = AfterDequeue]
    /\ UNCHANGED <<opt, existing, exTodo, imagestreams, producer, completed,
                   ignored, enq, calls, runs, logged>>
    /\ UNCHANGED mainVars

\* Lines 180-185 and 94: a worker takes the head of the queue and calls
\* _do_analyze_image on it.
Get(w) ==
    /\ pc[w] = "get"
    /\ queue # <<>>
    /\ cur' = [cur EXCEPT ![w] = Head(queue)]
    /\ out' = [out EXCEPT ![w] = enq[Head(queue)].ref]
    /\ queue' = AfterGet(queue)
    /\ att' = [att EXCEPT ![Head(queue)] = @ + 1]
    /\ pc' = [pc EXCEPT ![w] = AfterDequeue]
    /\ UNCHANGED <<opt, existing, exTodo, imagestreams, producer, completed,
                   ignored, enq,
                   calls, runs,
                   logged>>
    /\ UNCHANGED mainVars

\* Lines 152-153 of _push_image with the first "/" as the cut.
PushOutputFirst(image, push_registry) ==
    Format(push_registry) \o <<"/">> \o SplitFirst(image)[2]

\* Lines 152-153 of _push_image: the reference in the push registry.
PushOutput(image, push_registry) ==
    Format(push_registry) \o <<"/">> \o RSplit(image)[2]

\* Lines 136-161 of _push_image: the skopeo command line.
PushCommand(image, push_registry, user, password, src_tls, dst_tls) ==
    SkopeoExecPath \o CopyWord
        \o (IF ~src_tls THEN SrcTlsFlag ELSE <<>>)
        \o (IF ~dst_tls THEN DestTlsFlag ELSE <<>>)
        \o (IF Truthy(user)
            THEN DestCredsFlag \o user
                     \o (IF Truthy(password) THEN <<":">> \o password
                                              ELSE <<>>)
                     \o <<" ">>
            ELSE <<>>)
        \o DockerScheme \o image \o <<" ">>
        \o DockerScheme \o PushOutput(image, push_registry)

\* The command line logged as it is.
PlainText(cmd, password) == cmd

\* Line 163: the text of the command that is logged.
LogText(cmd, password) == Replace(cmd, password, Mask)

\* _push_image raises before it runs skopeo: line 152 on a None image
\* (AttributeError) or an image without "/" (IndexError), line 163 on a None
\* password (TypeError of str.replace).
PushRaises(image, password) ==
    \/ image = None
    \/ Len(RSplit(image)) < 2
    \/ password = None

\* Lines 193-198 with the exception left uncaught: the process dies.
UncaughtError == "dead"

\* Lines 193-198: the error is logged and the loop goes on at line 181.
AfterError == "get"

\* The worker w leaves _do_analyze_image for position p; the item and the
\* reference it held are dropped (line 181 rebinds them).
Leave(w, p) ==
    /\ pc' = [pc EXCEPT ![w] = p]
    /\ cur' = [cur EXCEPT ![w] = 0]
    /\ out' = [out EXCEPT ![w] = None]

\* An error handler that puts the item back on the queue.
Requeued(q, item) == Append(q, item)

\* Lines 193-198: the handler logs and puts nothing on the queue.
AfterFailure(q, item) == q

\* Lines 100-108 with the error of _push_image swallowed: the worker goes on
\* to submit the reference it had.
PushFailsSilently(w) ==
    /\ pc' = [pc EXCEPT ![w] = "submit"]
    /\ UNCHANGED <<cur, out, logged, queue>>

\* Lines 100-108 and 193-198: _push_image raised, _do_analyze_image is left
\* before line 110 and the error is logged.
PushFails(w) ==
    /\ Leave(w, AfterError)
    /\ logged' = logged \cup {cur[w]}
    /\ queue' = AfterFailure(queue, cur[w])

\* Lines 100-108 and 127-169: the image is copied to the push registry.
\* run_command raises when skopeo fails.
Push(w) ==
    /\ pc[w] = "push"
    /\ IF PushRaises(out[w], registry_password)
       THEN /\ PushFails(w)
            /\ UNCHANGED runs
       ELSE \E ok \in BOOLEAN :
            /\ runs' = runs \cup
                   {[id |-> cur[w],
                     log |-> LogText(
                         PushCommand(out[w], opt.push_registry,
                                     opt.registry_user, registry_password,
                                     ~opt.no_registry_tls_verify,
                                     ~opt.no_registry_tls_verify),
                         registry_password),
                     ok |-> ok]}
            /\ IF ok
               THEN /\ out' = [out EXCEPT ![w] =
                                   PushOutput(out[w], opt.push_registry)]
                    /\ pc' = [pc EXCEPT ![w] = "submit"]
                    /\ UNCHANGED <<cur, logged, queue>>
               ELSE PushFails(w)
    /\ UNCHANGED <<opt, existing, exTodo, imagestreams, producer, completed,
                   ignored, enq, att, calls>>
    /\ UNCHANGED mainVars

\* Lines 110-124: image_analysis is called and returns or raises.
Submit(w) ==
    /\ pc[w] = "submit"
    /\ calls' = calls \cup {[id |-> cur[w], image |-> out[w]]}
    /\ \/ /\ Leave(w, "get")
          /\ UNCHANGED <<logged, queue>>
       \/ /\ Leave(w, AfterError)
          /\ logged' = logged \cup {cur[w]}
          /\ queue' = AfterFailure(queue, cur[w])
    /\ UNCHANGED <<opt, existing, exTodo, imagestreams, producer, completed,
                   ignored, enq, att, runs>>
    /\ UNCHANGED mainVars

\* A worker process is killed or crashes.
Crash(w) ==
    /\ pc[w] \in {"get", "push", "submit"}
    /\ Leave(w, "dead")
    /\ UNCHANGED <<opt, existing, exTodo, imagestreams, producer, completed,
                   ignored,
                   queue, enq, att, calls, runs, logged>>
    /\ UNCHANGED mainVars

Worker(w) == Get(w) \/ Push(w) \/ Submit(w)

Next ==
    \/ Main
    \/ Existing
    \/ Producer
    \/ \E w \in Workers : Worker(w)
    \/ \E w \in Workers : Crash(w)

Spec == Init /\ [][Next]_vars

\* Every process that can take a step of its code eventually takes it: the
\* processes are scheduled by the operating system and every external call
\* returns.  Watch events and crashes are up to the environment.
FairSpec ==
    /\ Spec
    /\ WF_vars(Main)
    /\ WF_vars(Existing)
    /\ \A w \in Workers : WF_vars(Worker(w))

\* ------------------------------------------- one worker, any configuration
\* The registry credentials, TLS flag and references a worker can be given.
PwChars == {"a", "*", ":"}
AnyPasswords ==
    {None} \cup UNION {[1..n -> PwChars] : n \in 0..MaxPwLen}
AnyUsers == {None, <<"u">>, <<"*">>}
AnyRefs ==
    {None, <<":", "1">>, <<"r", "/", "n", "/", "a", ":", "1">>,
     <<"r", "/", "a", ":", "a">>}

\* Lines 341-347 and 82: cli has started its only worker and the event
\* producer has put one reference on the queue.
WorkerInit ==
    /\ opt \in [pass_token : {FALSE},
                registry_user : AnyUsers,
                registry_password : AnyPasswords,
                no_registry_tls_verify : BOOLEAN,
                push_registry : Registries,
                analyze_existing : {FALSE},
                workers_count : {1}]
    /\ registry_password = opt.registry_password
    /\ mainPc = "check"
    /\ exitStatus = 0
    /\ process_pool = <<1>>
    /\ existing = "notstarted"
    /\ imagestreams = <<>>
    /\ exTodo = <<>>
    /\ producer = "running"
    /\ completed = [b \in Builds |-> IF b = "b1" THEN 1 ELSE 0]
    /\ ignored = 0
    /\ pc = [w \in Workers |-> IF w = 1 THEN "get" ELSE "notstarted"]
    /\ cur = [w \in Workers |-> 0]
    /\ out = [w \in Workers |-> None]
    /\ queue = <<1>>
    /\ \E ref \in AnyRefs :
           enq = <<[ref |-> ref, src |-> "event", build |-> "b1"]>>
    /\ att = <<0>>
    /\ calls = {}
    /\ runs = {}
    /\ logged = {}

WorkerNext == \E w \in Workers : Worker(w)

\* The steps of _submitter on one item, for every configuration.
WorkerSpec == WorkerInit /\ [][WorkerNext]_vars

\* As FairSpec, but the first worker may stay for ever inside a call of
\* skopeo or of image_analysis that does not return.
HangSpec ==
    /\ Spec
    /\ WF_vars(Main)
    /\ WF_vars(Existing)
    /\ \A w \in Workers \ {1} : WF_vars(Worker(w))

TypeOK ==
    /\ mainPc \in {"start", "validate", "start_producer", "start_workers",
                    "check", "sleep", "failed"}
    /\ exitStatus \in {0, 1}
    /\ existing \in {"notstarted", "listing", "running", "done", "failed"}
    /\ producer \in {"notstarted", "running", "dead"}
    /\ pc \in [Workers -> {"notstarted", "get", "push", "submit", "dead"}]
    /\ Inputs <= MaxInputs
    /\ Len(att) = Len(enq)

\* ------------------------------------------------------------ properties
Handling(w) == pc[w] \in {"push", "submit"}

Ids == 1..Len(enq)

\* Item i was enqueued and has had exactly one _do_analyze_image call.
Attempted(i) == i <= Len(att) /\ att[i] = 1

DeadWorker == \E w \in Workers : pc[w] = "dead"

DistinctRefs == \A i, j \in Ids : i # j => enq[i].ref # enq[j].ref

\* C1: when the references enqueued are distinct and no worker crashes,
\* every enqueued reference gets exactly one submission attempt: never more
\* than one, and eventually one.  Stated for the worker counts of at least
\* one (without a worker nothing is ever dequeued).
C1_ExactlyOneAttemptEach ==
    /\ [](DistinctRefs => \A i \in Ids : att[i] <= 1)
    /\ \A i \in 1..MaxInputs :
          (i <= Len(enq) /\ DistinctRefs /\ opt.workers_count >= 1)
              ~> (Attempted(i) \/ DeadWorker \/ ~DistinctRefs)

\* C2: no queue item is ever handled by two workers or twice by one worker:
\* every enqueue operation has at most one _do_analyze_image call, two
\* workers never hold the same item, and an item held by a worker is no
\* longer on the queue.
C2_AtMostOneConsumer ==
    /\ \A i \in Ids : att[i] <= 1
    /\ \A v, w \in Workers :
          (v # w /\ Handling(v) /\ Handling(w)) => cur[v] # cur[w]
    /\ \A w \in Workers, k \in 1..Len(queue) :
          Handling(w) => queue[k] # cur[w]

C2_Witness ==
    /\ \E v, w \in Workers : v # w /\ Handling(v) /\ Handling(w)
    /\ Len(enq) >= 2

\* C3: a worker that catches an error of relocation or submission stays
\* alive and is back at queue.get(), and every reference that waits on the
\* queue still waits there for this or another worker.
C3_ErrorIsolated ==
    [][\A w \in Workers :
          (Handling(w) /\ cur[w] \notin logged /\ cur[w] \in logged')
              => (pc'[w] = "get" /\ queue' = queue)]_vars

\* Under FairSpec a reference enqueued after one whose handling failed is
\* attempted, as long as no worker crashes.
C3_LaterReferenceAttempted ==
    \A i \in 1..MaxInputs :
        (i <= Len(enq) /\ \E a \in logged : a < i)
            ~> (Attempted(i) \/ DeadWorker)

C3_Witness ==
    /\ opt.workers_count = 1
    /\ ~DeadWorker
    /\ \E a \in logged : \E i \in Ids : a < i /\ att[i] = 1

\* C4: when a worker process has terminated, the poll the main process makes
\* next ends the main process with a failure status, whatever the other
\* workers do.
C4_DeadWorkerDetected ==
    [][(mainPc = "check" /\ DeadWorker /\ mainPc' # mainPc)
         => (mainPc' = "failed" /\ exitStatus' = 1)]_vars

\* Under FairSpec that poll does take place.
C4_DeadWorkerLeadsToFailure ==
    DeadWorker ~> (mainPc = "failed" /\ exitStatus = 1)

C4_Witness ==
    /\ mainPc = "failed"
    /\ exitStatus = 1
    /\ \E v, w \in Workers : pc[v] = "dead" /\ pc[w] = "get"
    /\ queue = <<>>

\* C5: a poll the main process makes while the event producer process is
\* dead ends the main process with a failure status.
C5_DeadProducerDetected ==
    [][(mainPc = "check" /\ producer = "dead" /\ mainPc' # mainPc)
         => (mainPc' = "failed" /\ exitStatus' = 1)]_vars

\* C6: with --pass-token and an explicit registry password no producer and
\* no worker process is ever started and no queue item is ever handled.
C6_NothingStartedOnConflict ==
    (opt.pass_token /\ Truthy(opt.registry_password))
        => /\ existing = "notstarted"
           /\ producer = "notstarted"
           /\ \A w \in Workers : pc[w] = "notstarted"
           /\ \A i \in Ids : att[i] = 0

\* C7: the image of every image_analysis call is the dequeued reference when
\* no push registry is configured, and otherwise the push registry, "/" and
\* the text of the dequeued reference after its last "/".
C7_SubmittedReference ==
    \A c \in calls :
        LET r == enq[c.id].ref
        IN  IF ~Truthy(opt.push_registry)
            THEN c.image = r
            ELSE \E k \in 1..Len(r) :
                    /\ r[k] = "/"
                    /\ \A j \in (k + 1)..Len(r) : r[j] # "/"
                    /\ c.image = opt.push_registry \o <<"/">>
                                     \o SubSeq(r, k + 1, Len(r))

C7_Witness ==
    /\ Truthy(opt.push_registry)
    /\ \E c \in calls :
          /\ enq[c.id].ref = <<"r", "/", "n", "/", "a", ":", "1">>
          /\ c.image = <<"q", ".", "i", "o", "/", "a", ":", "1">>

\* Queue items the event producer wrote for build b.
EventEnq(b) ==
    Cardinality({i \in Ids : enq[i].src = "event" /\ enq[i].build = b})

\* C8: the event producer never writes more queue items for a build than it
\* received events of that build in phase Complete: an event in any other
\* phase writes nothing.
C8_OnlyCompleteEnqueues ==
    \A b \in Builds : EventEnq(b) <= completed[b]

C8_Witness ==
    /\ ignored >= 1
    /\ \A b \in Builds : completed[b] = 0 /\ EventEnq(b) = 0

\* C9 as claimed: every build with an event in phase Complete has exactly
\* one queue item, however many such events it had.
C9_OneItemPerBuild ==
    \A b \in Builds : completed[b] >= 1 => EventEnq(b) = 1

\* C9: the event producer writes exactly one queue item per received event
\* in phase Complete, so a build with k such events has k queue items.
C9_OneItemPerCompleteEvent ==
    \A b \in Builds : EventEnq(b) = completed[b]

C9_Witness ==
    \E b \in Builds : completed[b] = 2 /\ EventEnq(b) = 2

\* A reference with a non-empty repository, ":" and a non-empty tag.
FullyQualified(r) ==
    /\ r # None
    /\ \E k \in 2..(Len(r) - 1) : r[k] = ":"

\* C10: every value ever put on the queue is a fully qualified reference.
C10_EnqueuedFullyQualified ==
    \A i \in Ids : FullyQualified(enq[i].ref)

\* s has an occurrence of the non-empty text p.
Contains(s, p) ==
    \E i \in 1..(Len(s) - Len(p) + 1) : SubSeq(s, i, i + Len(p) - 1) = p

\* C11 as stated: whatever non-empty password is configured, no command
\* text that _push_image logged has the password as a substring.
C11_PasswordNeverLogged ==
    Truthy(registry_password)
        => \A r \in runs : ~Contains(r.log, registry_password)

\* C11: for a non-empty password without the character "*" of the mask, no
\* command text that _push_image logged has the password as a substring.
C11_PasswordWithoutStarNeverLogged ==
    (/\ Truthy(registry_password)
     /\ \A i \in 1..Len(registry_password) : registry_password[i] # "*")
        => \A r \in runs : ~Contains(r.log, registry_password)

\* A command that carried a user and a password without "*" was logged with
\* the mask in the place of the password.
C11_Witness ==
    /\ Truthy(registry_password)
    /\ Truthy(opt.registry_user)
    /\ \A i \in 1..Len(registry_password) : registry_password[i] # "*"
    /\ \E r \in runs :
           Contains(r.log, DestCredsFlag \o opt.registry_user
                               \o <<":">> \o Mask \o <<" ">>)

\* The main process is in the loop of lines 350-354.
Polling == mainPc \in {"check", "sleep"}

\* C12: the main process never ends with the success status 0: whenever it
\* has ended its exit status is not 0, and a step that takes it out of the
\* poll loop is taken with a dead worker and sets a non-zero exit status, so
\* while every worker is alive the loop goes on.
C12_NeverExitsWithSuccess ==
    /\ [](mainPc = "failed" => exitStatus # 0)
    /\ [][(Polling /\ ~Polling')
            => (DeadWorker /\ mainPc' = "failed" /\ exitStatus' # 0)]_vars

\* The main process left the poll loop that it had entered with its workers
\* and its producer started.
C12_Witness ==
    /\ mainPc = "failed"
    /\ exitStatus # 0
    /\ producer # "notstarted"
    /\ Len(process_pool) = opt.workers_count
    /\ opt.workers_count >= 1

\* The existing-image producer process has ended: scan over, or listing
\* raised.
ScanEnded == existing \in {"done", "failed"}

\* C13: the step in which the existing-image producer ends changes neither
\* the main process, nor the event producer, nor any worker, nor the queue;
\* and a poll the main process makes after it, with no dead worker, goes on
\* to sleep.
C13_ScanEndIsHarmless ==
    /\ [][(~ScanEnded /\ ScanEnded')
            => UNCHANGED <<mainPc, exitStatus, producer, pc, queue, enq>>]_vars
    /\ [][(mainPc = "check" /\ ScanEnded /\ ~DeadWorker /\ mainPc' # mainPc)
            => (mainPc' = "sleep" /\ exitStatus' = 0)]_vars

\* The scan is over, the main process polls on, the event producer and all
\* the workers run and a reference of the scan waits on the queue.
C13_Witness ==
    /\ existing = "done"
    /\ mainPc = "sleep"
    /\ producer = "running"
    /\ opt.workers_count = MaxWorkers
    /\ \A w \in Workers : pc[w] \in {"get", "push", "submit"}
    /\ \E k \in 1..Len(queue) : enq[queue[k]].src = "existing"

\* Worker processes started so far.
Started == {w \in Workers : pc[w] # "notstarted"}

\* C14: once the main process polls, the event producer has been started
\* and exactly workers-count workers have been started; from then on no
\* process is started and the pool does not change; a dead worker stays
\* dead.
C14_FixedSetOfProcesses ==
    /\ [](Polling => /\ Cardinality(Started) = opt.workers_count
                      /\ Len(process_pool) = opt.workers_count
                      /\ producer # "notstarted")
    /\ [][(Polling \/ mainPc = "failed")
            => /\ Started' = Started
               /\ process_pool' = process_pool
               /\ (producer = "notstarted") = (producer' = "notstarted")]_vars
    /\ [][\A w \in Workers : pc[w] = "dead" => pc'[w] = "dead"]_vars

\* Two workers were asked for and started, one of them has died and the
\* main process has polled since without replacing it.
C14_Witness ==
    /\ opt.workers_count = 2
    /\ Cardinality(Started) = 2
    /\ \E v, w \in Workers : pc[v] = "dead" /\ pc[w] # "dead"
    /\ mainPc = "failed"

\* Queue items the existing-image producer wrote.
ExistingIds == {i \in Ids : enq[i].src = "existing"}

\* The (image stream, tag) pairs of the listing, by position.
StreamTags ==
    UNION {{<<k, j>> : j \in 1..Len(imagestreams[k].tags)} :
              k \in 1..Len(imagestreams)}

\* "<repository>:<tag>" of the pair p.
StreamTagRef(p) ==
    imagestreams[p[1]].repo \o <<":">> \o imagestreams[p[1]].tags[p[2]]

\* C15: the existing-image producer writes only references
\* "<repository>:<tag>" of pairs of its listing and never more than there
\* are pairs; when it is done it has written exactly one per pair; its
\* steps make no image_analysis or skopeo call; it is started only with
\* --analyze-existing, and once it has listed or ended it never lists again.
C15_OneReferencePerStreamTag ==
    /\ [](/\ \A i \in ExistingIds :
               \E p \in StreamTags : enq[i].ref = StreamTagRef(p)
          /\ Cardinality(ExistingIds) <= Cardinality(StreamTags)
          /\ existing = "done"
                => \A p \in StreamTags :
                      Cardinality({i \in ExistingIds :
                                      enq[i].ref = StreamTagRef(p)})
                        = Cardinality({q \in StreamTags :
                                          StreamTagRef(q) = StreamTagRef(p)})
          /\ ~opt.analyze_existing
                => (existing = "notstarted" /\ ExistingIds = {}))
    /\ [][(existing' # existing \/ exTodo' # exTodo)
            => (calls' = calls /\ runs' = runs)]_vars
    /\ [][(existing # "notstarted" /\ existing' # existing)
            => (existing' # "listing" /\ ~ScanEnded)]_vars

\* The scan of a listing with two tagged streams and one stream without
\* tags is over and has written two queue items.
C15_Witness ==
    /\ existing = "done"
    /\ Cardinality(StreamTags) = 2
    /\ \E k \in 1..Len(imagestreams) : imagestreams[k].tags = <<>>
    /\ Cardinality(ExistingIds) = 2

\* Item i waits on the queue.
Waiting(i) == \E k \in 1..Len(queue) : queue[k] = i

\* C16: a step of a worker never puts anything on the queue: it leaves the
\* queue as it is or takes its head; the step in which a worker handles an
\* error leaves the queue unchanged and the failed item off it; no item ever
\* has a second _do_analyze_image call.
C16_WorkersNeverEnqueue ==
    /\ [](\A i \in Ids : att[i] <= 1)
    /\ [][pc' # pc
            => /\ enq' = enq
               /\ \/ queue' = queue
                  \/ queue # <<>> /\ queue' = Tail(queue)]_vars
    /\ [][\A i \in Ids :
            (i \notin logged /\ i \in logged')
                => (queue' = queue /\ ~Waiting(i)' /\ att'[i] = 1)]_vars

\* An item whose handling failed had its one attempt and is gone: no worker
\* holds it, the queue is empty and all started workers wait for new items.
C16_Witness ==
    /\ \E i \in logged : att[i] = 1 /\ ~Waiting(i)
    /\ queue = <<>>
    /\ opt.workers_count >= 1
    /\ \A w \in Started : pc[w] = "get"

\* Item i has been through _do_analyze_image: it was dequeued and no worker
\* holds it any more.
Handled(i) == att[i] >= 1 /\ \A w \in Workers : cur[w] # i

\* C17: with a push registry, whatever the user and the password are, every
\* item that has been through a worker had its skopeo copy run, and when
\* the copy succeeded the relocated reference was submitted.  Stated for
\* references that have a "/", which relocation needs.
C17_CopiedAndSubmitted ==
    Truthy(opt.push_registry)
        => \A i \in Ids :
              (/\ Handled(i)
               /\ enq[i].ref # None
               /\ Contains(enq[i].ref, <<"/">>))
                  => /\ \E r \in runs : r.id = i
                     /\ \A r \in runs :
                           (r.id = i /\ r.ok)
                               => \E c \in calls :
                                     /\ c.id = i
                                     /\ c.image =
                                            PushOutput(enq[i].ref,
                                                       opt.push_registry)

\* The skopeo copy of item i has been run and has succeeded.
Relocated(i) == \E r \in runs : r.id = i /\ r.ok

\* C18: with a push registry, a worker is at its image_analysis call only
\* for an item whose copy has succeeded, every image_analysis call is made
\* in a step after the successful copy of the same item, and an item whose
\* relocation failed has no image_analysis call.
C18_SubmitOnlyAfterRelocation ==
    /\ [](Truthy(opt.push_registry)
            => /\ \A w \in Workers : pc[w] = "submit" => Relocated(cur[w])
               /\ \A c \in calls : Relocated(c.id)
               /\ \A i \in logged :
                     ~Relocated(i) => \A c \in calls : c.id # i)
    /\ [][Truthy(opt.push_registry)
            => \A c \in calls' \ calls : Relocated(c.id)]_vars

\* With a push registry, one item was copied and submitted and the copy of
\* another item was run and failed: that item was logged and not submitted.
C18_Witness ==
    /\ Truthy(opt.push_registry)
    /\ \E c \in calls : Relocated(c.id)
    /\ \E i \in logged :
          /\ \E r \in runs : r.id = i /\ ~r.ok
          /\ \A c \in calls : c.id # i

\* C19: while a worker is inside a relocation or submission call, every
\* other worker that waits at queue.get() can take the head of a non-empty
\* queue, and a poll of the main process that finds no dead worker goes on
\* to sleep: a busy or hung worker is alive for it.
C19_HungWorkerBlocksNobody ==
    /\ [](\A v, w \in Workers :
            (v # w /\ Handling(w) /\ pc[v] = "get" /\ queue # <<>>)
                => ENABLED Get(v))
    /\ [][(/\ mainPc = "check"
           /\ \E w \in Workers : Handling(w)
           /\ ~DeadWorker
           /\ mainPc' # mainPc)
             => (mainPc' = "sleep" /\ exitStatus' = 0)]_vars

\* Under HangSpec, where the first worker may never leave a call: an item
\* that waits on the queue while the first worker is inside a call and the
\* second worker runs is attempted, as long as no worker crashes.
C19_SiblingAttemptsLaterItems ==
    \A i \in 1..MaxInputs :
        (/\ i <= Len(enq)
         /\ Waiting(i)
         /\ Handling(1)
         /\ pc[2] \in {"get", "push", "submit"})
            ~> (Attempted(i) \/ DeadWorker)

\* The first worker is still inside the call of the first item; the second
\* worker has taken and finished the item enqueued after it, and the main
\* process sleeps between two polls.
C19_Witness ==
    /\ Handling(1)
    /\ cur[1] = 1
    /\ pc[2] = "get"
    /\ Len(enq) = 2
    /\ att[2] = 1
    /\ \E c \in calls : c.id = 2
    /\ mainPc = "sleep"

\* C20: every item taken off the queue has had exactly one
\* _do_analyze_image call and every item that waits has had none, whatever
\* its reference and whether or not the same reference was enqueued before:
\* the number of calls is the number of items taken off the queue.
C20_AttemptsEqualDequeues ==
    /\ \A i \in Ids : att[i] = IF Waiting(i) THEN 0 ELSE 1
    /\ Cardinality({i \in Ids : att[i] = 1}) = Len(enq) - Len(queue)

\* The same reference was enqueued twice and both items were attempted.
C20_Witness ==
    \E i, j \in Ids :
        /\ i # j
        /\ enq[i].ref = enq[j].ref
        /\ att[i] = 1
        /\ att[j] = 1
====
